---- MODULE Spec2Model ----
(***************************************************************************)
(* The Minesweeper knowledge-base engine of                               *)
(* ai/2020/x/projects/1/minesweeper/minesweeper.py: the grid (Minesweeper),*)
(* the sentence algebra (Sentence) and the player (MinesweeperAI), whose   *)
(* add_knowledge is modelled statement by statement: one step for each     *)
(* mark_mine / mark_safe call, one for each iteration of the subset loops. *)
(***************************************************************************)
EXTENDS Integers, Sequences, FiniteSets, TLC

\* Bounds of the model: board shapes up to MaxHeight x MaxWidth, at most
\* MaxMines hazards, at most MaxMoves probes in one game.
MaxHeight == 3
MaxWidth == 3
MaxMines == 1
MaxMoves == 3

VARIABLES
    height, width,      \* MinesweeperAI.height / width (= Minesweeper's)
    board,              \* Minesweeper.board, as the set of cells that are True
    moves_made,         \* MinesweeperAI.moves_made
    mines,              \* MinesweeperAI.mines
    safes,              \* MinesweeperAI.safes
    knowledge,          \* MinesweeperAI.knowledge: a list of sentences
    pc,                 \* position inside add_knowledge, "idle" outside it
    cell, count,        \* arguments of the current (or last) add_knowledge
    surrounding_cells,  \* local of add_knowledge (line 283)
    k,                  \* list iterator of a marking loop: next index to fetch
    pending,            \* cells of the .copy() not yet iterated
    oi,                 \* list iterator of `for sentence1` : next index
    ii,                 \* list iterator of `for sentence2` : next index, 0 = none
    sentence1,          \* the object bound to sentence1 (its cells and count)
    s1pos,              \* where the sentence1 object sits in the list, 0 = removed
    move,               \* value just returned by make_safe_move / make_random_move
    called,             \* history: the method of MinesweeperAI called last
    zero_seen           \* history: the cells seen in a sentence of count 0
                        \* during the current (or last) add_knowledge

vars == <<height, width, board, moves_made, mines, safes, knowledge, pc, cell,
          count, surrounding_cells, k, pending, oi, ii, sentence1, s1pos, move,
          called, zero_seen>>

\* Python's None, where a cell may stand: the tuple of no coordinates.
None == << >>
NoSentence == [cells |-> {}, count |-> -1]

----------------------------------------------------------------------------
\* Minesweeper (the grid)

Cells == (0 .. height - 1) \X (0 .. width - 1)

is_mine(c) == c \in board

\* nearby_mines with a slip: the cell itself is not skipped.
nearby_mines_self(c) ==
    Cardinality({ n \in ((c[1] - 1) .. (c[1] + 1)) \X ((c[2] - 1) .. (c[2] + 1)) :
                    /\ 0 <= n[1] /\ n[1] < height
                    /\ 0 <= n[2] /\ n[2] < width
                    /\ n \in board })

\* Lines 56-79: count the True cells within one row and column, the cell
\* itself and out-of-bounds positions left out.
nearby_mines(c) ==
    Cardinality({ n \in ((c[1] - 1) .. (c[1] + 1)) \X ((c[2] - 1) .. (c[2] + 1)) :
                    /\ n # c
                    /\ 0 <= n[1] /\ n[1] < height
                    /\ 0 <= n[2] /\ n[2] < width
                    /\ n \in board })

----------------------------------------------------------------------------
\* Sentence

Sentence(cells, n) == [cells |-> cells, count |-> n]

SentenceEq(a, b) == a.cells = b.cells /\ a.count = b.count

\* known_mines with a slip: the size of the cell set is not compared.
known_mines_no_size(s) == IF s.count > 0 THEN s.cells ELSE {}

\* known_mines with a slip: a single hazard is not recognised.
known_mines_gt1(s) ==
    IF s.count = Cardinality(s.cells) /\ s.count > 1 THEN s.cells ELSE {}

known_mines(s) ==
    IF s.count = Cardinality(s.cells) /\ s.count > 0 THEN s.cells ELSE {}

known_safes(s) == IF s.count = 0 THEN s.cells ELSE {}

\* mark_mine with a slip: the cell is counted, and not added.
SentenceMarkMine_noadd(s, c) ==
    IF c \notin s.cells
    THEN [cells |-> s.cells, count |-> s.count + 1]
    ELSE s

\* mark_mine with a slip: the cell is added, and not counted.
SentenceMarkMine_nocount(s, c) ==
    IF c \notin s.cells
    THEN [cells |-> s.cells \cup {c}, count |-> s.count]
    ELSE s

\* Lines 122-129: a cell the sentence does not hold is added and counted.
SentenceMarkMine(s, c) ==
    IF c \notin s.cells
    THEN [cells |-> s.cells \cup {c}, count |-> s.count + 1]
    ELSE s

\* mark_safe with a slip: the count is decremented with the cell.
SentenceMarkSafe_decr(s, c) ==
    IF c \in s.cells
    THEN [cells |-> s.cells \ {c}, count |-> s.count - 1]
    ELSE s

\* Lines 131-137
SentenceMarkSafe(s, c) ==
    IF c \in s.cells
    THEN [cells |-> s.cells \ {c}, count |-> s.count]
    ELSE s

----------------------------------------------------------------------------
\* MinesweeperAI

\* Lines 166 and 175: self.mines.add(cell), self.safes.add(cell)
\* mines.add with a slip: the cell is not recorded.
mines_add_noop(c) == mines
mines_add(c) == mines \cup {c}
\* safes.add with a slip: the set is assigned.
\* safes.add with a slip: the cell is not recorded.
safes_add_noop(c) == safes
safes_assign(c) == {c}
safes_add(c) == safes \cup {c}

\* Lines 167-168 and 176-177: the effect on the list of sentences.
MarkMineAll(kb, c) == [i \in 1 .. Len(kb) |-> SentenceMarkMine(kb[i], c)]
MarkSafeAll(kb, c) == [i \in 1 .. Len(kb) |-> SentenceMarkSafe(kb[i], c)]

\* get_surrounding_cells with a slip: range(row1, row2) leaves row2 out.
get_surrounding_cells_short(c) ==
    LET row1 == IF c[1] > 0 THEN c[1] - 1 ELSE 0
        row2 == IF c[1] < height - 1 THEN c[1] + 1 ELSE height - 1
        col1 == IF c[2] > 0 THEN c[2] - 1 ELSE 0
        col2 == IF c[2] < width - 1 THEN c[2] + 1 ELSE width - 1
    IN  { n \in (row1 .. row2 - 1) \X (col1 .. col2) : n # c /\ n \notin safes }

\* get_surrounding_cells with a slip: known-safe cells are not left out.
get_surrounding_cells_all(c) ==
    LET row1 == IF c[1] > 0 THEN c[1] - 1 ELSE 0
        row2 == IF c[1] < height - 1 THEN c[1] + 1 ELSE height - 1
        col1 == IF c[2] > 0 THEN c[2] - 1 ELSE 0
        col2 == IF c[2] < width - 1 THEN c[2] + 1 ELSE width - 1
    IN  { n \in (row1 .. row2) \X (col1 .. col2) : n # c }

\* Lines 179-201
get_surrounding_cells(c) ==
    LET row1 == IF c[1] > 0 THEN c[1] - 1 ELSE 0
        row2 == IF c[1] < height - 1 THEN c[1] + 1 ELSE height - 1
        col1 == IF c[2] > 0 THEN c[2] - 1 ELSE 0
        col2 == IF c[2] < width - 1 THEN c[2] + 1 ELSE width - 1
    IN  { n \in (row1 .. row2) \X (col1 .. col2) : n # c /\ n \notin safes }

\* `x in self.knowledge` (Sentence.__eq__)
InKnowledge(kb, s) == \E i \in 1 .. Len(kb) : SentenceEq(kb[i], s)

\* list.remove(x): the first element equal to x goes.
FirstEqual(kb, s) ==
    CHOOSE i \in 1 .. Len(kb) :
        /\ SentenceEq(kb[i], s)
        /\ \A j \in 1 .. (i - 1) : ~SentenceEq(kb[j], s)

RemoveAt(kb, r) == [i \in 1 .. (Len(kb) - 1) |-> IF i < r THEN kb[i] ELSE kb[i + 1]]

Init ==
    /\ height \in 1 .. MaxHeight
    /\ width \in 1 .. MaxWidth
    /\ board \in { b \in SUBSET ((0 .. height - 1) \X (0 .. width - 1)) :
                     Cardinality(b) <= MaxMines }
    /\ moves_made = {}
    /\ mines = {}
    /\ safes = {}
    /\ knowledge = << >>
    /\ pc = "idle"
    /\ cell = None
    /\ count = 0
    /\ surrounding_cells = {}
    /\ k = 1
    /\ pending = {}
    /\ oi = 1
    /\ ii = 0
    /\ sentence1 = NoSentence
    /\ s1pos = 0
    /\ move = None
    /\ called = "__init__"
    /\ zero_seen = {}

Board == <<height, width, board>>
Loops == <<k, pending, oi, ii, sentence1, s1pos>>
Subset == <<oi, ii, sentence1, s1pos>>
Args == <<cell, count, surrounding_cells>>

\* add_knowledge(c, n), lines 283-288: a truthful observation of a cell that
\* is no hazard and was not probed before.
AddKnowledge(c) ==
    /\ pc = "idle"
    /\ Cardinality(moves_made) < MaxMoves
    /\ c \notin moves_made
    /\ ~is_mine(c)
    /\ cell' = c
    /\ count' = nearby_mines(c)
    /\ surrounding_cells' = get_surrounding_cells(c)
    /\ moves_made' = moves_made \cup {c}
    /\ safes' = safes_add(c)
    /\ knowledge' = MarkSafeAll(knowledge, c)
    /\ pc' = "append"
    /\ move' = None
    /\ UNCHANGED <<Board, mines, Loops>>

\* Line 290 with a guard the code does not have: an empty set of
\* surrounding cells appends nothing.
AppendSentence_nonempty ==
    /\ pc = "append"
    /\ knowledge' = IF surrounding_cells = {}
                    THEN knowledge
                    ELSE Append(knowledge, Sentence(surrounding_cells, count))
    /\ pc' = "mines1"
    /\ k' = 1
    /\ pending' = {}
    /\ UNCHANGED <<Board, moves_made, mines, safes, Args, Subset, move>>

\* Line 290
AppendSentence ==
    /\ pc = "append"
    /\ knowledge' = Append(knowledge, Sentence(surrounding_cells, count))
    /\ pc' = "mines1"
    /\ k' = 1
    /\ pending' = {}
    /\ UNCHANGED <<Board, moves_made, mines, safes, Args, Subset, move>>

\* Lines 293-294 and 321-322: the next sentence of the list, and the copy of
\* its known_mines().
MinesLoopNext ==
    /\ pc \in {"mines1", "mines2"}
    /\ pending = {}
    /\ k <= Len(knowledge)
    /\ pending' = known_mines(knowledge[k])
    /\ k' = k + 1
    /\ UNCHANGED <<Board, moves_made, mines, safes, knowledge, pc, Args, Subset, move>>

\* Lines 295 and 323: self.mark_mine(cell1)
MinesLoopMark ==
    /\ pc \in {"mines1", "mines2"}
    /\ \E c \in pending :
        /\ mines' = mines_add(c)
        /\ knowledge' = MarkMineAll(knowledge, c)
        /\ pending' = pending \ {c}
    /\ UNCHANGED <<Board, moves_made, safes, pc, Args, k, Subset, move>>

MinesLoopDone ==
    /\ pc \in {"mines1", "mines2"}
    /\ pending = {}
    /\ k > Len(knowledge)
    /\ pc' = IF pc = "mines1" THEN "safes1" ELSE "safes2"
    /\ k' = 1
    /\ UNCHANGED <<Board, moves_made, mines, safes, knowledge, Args, pending, Subset, move>>

\* Lines 297-298 and 325-326
SafesLoopNext ==
    /\ pc \in {"safes1", "safes2"}
    /\ pending = {}
    /\ k <= Len(knowledge)
    /\ pending' = known_safes(knowledge[k])
    /\ k' = k + 1
    /\ UNCHANGED <<Board, moves_made, mines, safes, knowledge, pc, Args, Subset, move>>

\* Lines 299, 304 and 327: self.mark_safe(cell1)
SafesLoopMark ==
    /\ pc \in {"safes1", "zero", "safes2"}
    /\ \E c \in pending :
        /\ safes' = safes_add(c)
        /\ knowledge' = MarkSafeAll(knowledge, c)
        /\ pending' = pending \ {c}
    /\ UNCHANGED <<Board, moves_made, mines, pc, Args, k, Subset, move>>

\* End of the loop of line 297; lines 302-303: with count = 0 the
\* surrounding cells are iterated.
SafesLoopDone ==
    /\ pc = "safes1"
    /\ pending = {}
    /\ k > Len(knowledge)
    /\ pc' = "zero"
    /\ pending' = IF count = 0 THEN surrounding_cells ELSE {}
    /\ k' = 1
    /\ UNCHANGED <<Board, moves_made, mines, safes, knowledge, Args, Subset, move>>

\* End of lines 302-304; line 309 starts.
ZeroDone ==
    /\ pc = "zero"
    /\ pending = {}
    /\ pc' = "subset"
    /\ oi' = 1
    /\ ii' = 0
    /\ sentence1' = NoSentence
    /\ s1pos' = 0
    /\ UNCHANGED <<Board, moves_made, mines, safes, knowledge, Args, k, pending, move>>

InnerDone == ii = 0 \/ ii > Len(knowledge)

\* Line 309: the outer iterator yields the element at its index, if any.
SubsetOuterNext ==
    /\ pc = "subset"
    /\ InnerDone
    /\ oi <= Len(knowledge)
    /\ sentence1' = knowledge[oi]
    /\ s1pos' = oi
    /\ oi' = oi + 1
    /\ ii' = 1
    /\ UNCHANGED <<Board, moves_made, mines, safes, knowledge, pc, Args, k, pending, move>>

\* The skip written as in a while loop whose `continue` forgets the
\* increment: the inner iterator does not advance.
SubsetSkip_no_advance ==
    /\ pc = "subset"
    /\ ~InnerDone
    /\ LET sentence2 == knowledge[ii] IN
        \/ s1pos = ii
        \/ /\ ~SentenceEq(sentence1, sentence2)
           /\ ~(sentence1.cells \subseteq sentence2.cells)
    /\ ii' = ii
    /\ UNCHANGED <<Board, moves_made, mines, safes, knowledge, pc, Args, k, pending,
                   oi, sentence1, s1pos, move>>

\* Lines 310-312 and the fall-through of 315: nothing to do for this pair.
SubsetSkip ==
    /\ pc = "subset"
    /\ ~InnerDone
    /\ LET sentence2 == knowledge[ii] IN
        \/ s1pos = ii
        \/ /\ ~SentenceEq(sentence1, sentence2)
           /\ ~(sentence1.cells \subseteq sentence2.cells)
    /\ ii' = ii + 1
    /\ UNCHANGED <<Board, moves_made, mines, safes, knowledge, pc, Args, k, pending,
                   oi, sentence1, s1pos, move>>

\* Lines 313-314 with a slip: every element equal to sentence2 goes.
SubsetRemove_all ==
    /\ pc = "subset"
    /\ ~InnerDone
    /\ s1pos # ii
    /\ SentenceEq(sentence1, knowledge[ii])
    /\ knowledge' = SelectSeq(knowledge, LAMBDA s : ~SentenceEq(s, sentence1))
    /\ s1pos' = 0
    /\ ii' = ii + 1
    /\ UNCHANGED <<Board, moves_made, mines, safes, pc, Args, k, pending, oi,
                   sentence1, move>>

\* Lines 313-314: self.knowledge.remove(sentence2)
SubsetRemove ==
    /\ pc = "subset"
    /\ ~InnerDone
    /\ s1pos # ii
    /\ SentenceEq(sentence1, knowledge[ii])
    /\ LET r == FirstEqual(knowledge, knowledge[ii]) IN
        /\ knowledge' = RemoveAt(knowledge, r)
        /\ s1pos' = IF r = s1pos THEN 0 ELSE IF r < s1pos THEN s1pos - 1 ELSE s1pos
    /\ ii' = ii + 1
    /\ UNCHANGED <<Board, moves_made, mines, safes, pc, Args, k, pending, oi,
                   sentence1, move>>

\* Lines 315-319 with a slip: the test `new_knowledge not in self.knowledge`
\* is left out.
SubsetDerive_always ==
    /\ pc = "subset"
    /\ ~InnerDone
    /\ s1pos # ii
    /\ ~SentenceEq(sentence1, knowledge[ii])
    /\ sentence1.cells \subseteq knowledge[ii].cells
    /\ LET sentence2 == knowledge[ii]
           new_knowledge == Sentence(sentence2.cells \ sentence1.cells,
                                     sentence2.count - sentence1.count)
       IN  knowledge' = Append(knowledge, new_knowledge)
    /\ ii' = ii + 1
    /\ UNCHANGED <<Board, moves_made, mines, safes, pc, Args, k, pending, oi,
                   sentence1, s1pos, move>>

\* Lines 315-319
SubsetDerive ==
    /\ pc = "subset"
    /\ ~InnerDone
    /\ s1pos # ii
    /\ ~SentenceEq(sentence1, knowledge[ii])
    /\ sentence1.cells \subseteq knowledge[ii].cells
    /\ LET sentence2 == knowledge[ii]
           new_knowledge == Sentence(sentence2.cells \ sentence1.cells,
                                     sentence2.count - sentence1.count)
       IN  knowledge' = IF InKnowledge(knowledge, new_knowledge)
                        THEN knowledge
                        ELSE Append(knowledge, new_knowledge)
    /\ ii' = ii + 1
    /\ UNCHANGED <<Board, moves_made, mines, safes, pc, Args, k, pending, oi,
                   sentence1, s1pos, move>>

\* The loop of line 309 ends; line 321 starts.
SubsetDone ==
    /\ pc = "subset"
    /\ InnerDone
    /\ oi > Len(knowledge)
    /\ pc' = "mines2"
    /\ k' = 1
    /\ pending' = {}
    /\ oi' = 1
    /\ ii' = 0
    /\ sentence1' = NoSentence
    /\ s1pos' = 0
    /\ UNCHANGED <<Board, moves_made, mines, safes, knowledge, Args, move>>

\* End of the loop of line 325; lines 329-331 only print: add_knowledge returns.
Return ==
    /\ pc = "safes2"
    /\ pending = {}
    /\ k > Len(knowledge)
    /\ pc' = "idle"
    /\ k' = 1
    /\ UNCHANGED <<Board, moves_made, mines, safes, knowledge, Args, pending, Subset, move>>

\* make_safe_move with a slip: `moves = self.safes` is no copy, and the pop
\* takes the returned cell out of safes.
make_safe_move_alias ==
    /\ pc = "idle"
    /\ IF Cardinality(safes) > 0
       THEN /\ move' \in safes
            /\ safes' = safes \ {move'}
       ELSE /\ move' = None
            /\ safes' = safes
    /\ UNCHANGED <<Board, moves_made, mines, knowledge, pc, Args, Loops>>

\* make_safe_move with a slip: the moves already made are not taken out.
make_safe_move_all_safes ==
    /\ pc = "idle"
    /\ LET moves == safes IN
        IF Cardinality(moves) > 0 THEN move' \in moves ELSE move' = None
    /\ UNCHANGED <<Board, moves_made, mines, safes, knowledge, pc, Args, Loops>>

\* Lines 333-346
make_safe_move ==
    /\ pc = "idle"
    /\ LET moves == safes \ moves_made IN
        IF Cardinality(moves) > 0 THEN move' \in moves ELSE move' = None
    /\ UNCHANGED <<Board, moves_made, mines, safes, knowledge, pc, Args, Loops>>

\* make_random_move with a slip: the known hazards are not left out.
make_random_move_any ==
    /\ pc = "idle"
    /\ LET cells == { c \in (0 .. height - 1) \X (0 .. width - 1) :
                        c \notin moves_made } IN
        IF Cardinality(cells) = 0 THEN move' = None ELSE move' \in cells
    /\ UNCHANGED <<Board, moves_made, mines, safes, knowledge, pc, Args, Loops>>

\* Lines 348-369
make_random_move ==
    /\ pc = "idle"
    /\ LET cells == { c \in (0 .. height - 1) \X (0 .. width - 1) :
                        c \notin moves_made /\ c \notin mines } IN
        IF Cardinality(cells) = 0 THEN move' = None ELSE move' \in cells
    /\ UNCHANGED <<Board, moves_made, mines, safes, knowledge, pc, Args, Loops>>

\* The cells of the sentences of count 0.
ZeroCells(kb) == UNION { kb[i].cells : i \in { j \in 1 .. Len(kb) : kb[j].count = 0 } }

\* The history variables record which method a step belongs to, and what the
\* sentences of count 0 held in any state of the call so far; they are not read
\* by any action.
History(method) ==
    /\ called' = method
    /\ zero_seen' = IF pc' = "idle"
                    THEN zero_seen
                    ELSE (IF pc = "idle" THEN {} ELSE zero_seen) \cup ZeroCells(knowledge')

Next ==
    \/ (\E c \in Cells : AddKnowledge(c)) /\ History("add_knowledge")
    \/ AppendSentence /\ History("add_knowledge")
    \/ MinesLoopNext /\ History("add_knowledge")
    \/ MinesLoopMark /\ History("add_knowledge")
    \/ MinesLoopDone /\ History("add_knowledge")
    \/ SafesLoopNext /\ History("add_knowledge")
    \/ SafesLoopMark /\ History("add_knowledge")
    \/ SafesLoopDone /\ History("add_knowledge")
    \/ ZeroDone /\ History("add_knowledge")
    \/ SubsetOuterNext /\ History("add_knowledge")
    \/ SubsetSkip /\ History("add_knowledge")
    \/ SubsetRemove /\ History("add_knowledge")
    \/ SubsetDerive /\ History("add_knowledge")
    \/ SubsetDone /\ History("add_knowledge")
    \/ Return /\ History("add_knowledge")
    \/ make_safe_move /\ History("make_safe_move")
    \/ make_random_move /\ History("make_random_move")

Spec == Init /\ [][Next]_vars

\* The steps of the body of add_knowledge. The program is single-threaded and
\* nothing suspends a call: a call that can take a step takes it.
Body == pc # "idle" /\ Next

FairSpec == Init /\ [][Next]_vars /\ WF_vars(Body)

\* Lines 283-288 in a game played to its end: the driver probes any cell that
\* is not a hazard and was not probed, as long as there is one.
PlayAddKnowledge(c) ==
    /\ pc = "idle"
    /\ c \notin moves_made
    /\ ~is_mine(c)
    /\ cell' = c
    /\ count' = nearby_mines(c)
    /\ surrounding_cells' = get_surrounding_cells(c)
    /\ moves_made' = moves_made \cup {c}
    /\ safes' = safes_add(c)
    /\ knowledge' = MarkSafeAll(knowledge, c)
    /\ pc' = "append"
    /\ move' = None
    /\ UNCHANGED <<Board, mines, Loops>>

PlayNext ==
    \/ (\E c \in Cells : PlayAddKnowledge(c)) /\ History("add_knowledge")
    \/ AppendSentence /\ History("add_knowledge")
    \/ MinesLoopNext /\ History("add_knowledge")
    \/ MinesLoopMark /\ History("add_knowledge")
    \/ MinesLoopDone /\ History("add_knowledge")
    \/ SafesLoopNext /\ History("add_knowledge")
    \/ SafesLoopMark /\ History("add_knowledge")
    \/ SafesLoopDone /\ History("add_knowledge")
    \/ ZeroDone /\ History("add_knowledge")
    \/ SubsetOuterNext /\ History("add_knowledge")
    \/ SubsetSkip /\ History("add_knowledge")
    \/ SubsetRemove /\ History("add_knowledge")
    \/ SubsetDerive /\ History("add_knowledge")
    \/ SubsetDone /\ History("add_knowledge")
    \/ Return /\ History("add_knowledge")

\* Whole games: every order of probing every cell that is not a hazard.
PlaySpec == Init /\ [][PlayNext]_vars

----------------------------------------------------------------------------
\* Vocabulary of the properties

\* The in-bounds cells sharing an edge or a corner with c.
Neighbours(c) ==
    { n \in Cells : /\ n # c
                    /\ n[1] - c[1] \in {-1, 0, 1}
                    /\ n[2] - c[2] \in {-1, 0, 1} }

Returned == pc = "idle" /\ cell # None

\* This step is the call MinesweeperAI.mark_mine(c) of line 295 or 323.
MarkMineCalled(c) ==
    /\ pc \in {"mines1", "mines2"}
    /\ c \in pending
    /\ pending' = pending \ {c}

\* This step is the call MinesweeperAI.mark_safe(c) of line 288, 299, 304 or 327.
MarkSafeCalled(c) ==
    \/ pc = "idle" /\ pc' = "append" /\ c = cell'
    \/ /\ pc \in {"safes1", "zero", "safes2"}
       /\ c \in pending
       /\ pending' = pending \ {c}

SizeOK(s) == 0 <= s.count /\ s.count <= Cardinality(s.cells)

----------------------------------------------------------------------------
\* C1 (soundness): under truthful observations every cell of mines is a
\* hazard of the grid and no cell of safes is one.
C1_Soundness == mines \subseteq board /\ safes \cap board = {}

\* add_knowledge has returned with a known hazard and known-safe cells that
\* were never probed.
C1_Witness == Returned /\ mines # {} /\ safes \ moves_made # {}

\* C2 (monotonicity): no step of add_knowledge, make_safe_move or
\* make_random_move takes a member out of safes or out of mines.
C2_Monotone == [][safes \subseteq safes' /\ mines \subseteq mines']_vars

\* Both sets have grown over two calls of add_knowledge, and a move was asked for.
C2_Witness ==
    /\ pc = "idle"
    /\ Cardinality(moves_made) >= 2
    /\ Cardinality(safes) >= 3
    /\ mines # {}
    /\ move # None

\* C3, as claimed: a call mark_mine(c) takes c out of every sentence, lowers by
\* one the count of each sentence that held it and leaves no sentence holding c.
C3_MarkMineRemoves ==
    [][\A c \in pending : MarkMineCalled(c) =>
          /\ Len(knowledge') = Len(knowledge)
          /\ \A i \in 1 .. Len(knowledge) :
                /\ c \notin knowledge'[i].cells
                /\ c \in knowledge[i].cells =>
                      knowledge'[i].count = knowledge[i].count - 1]_vars

\* C4: a call mark_safe(c) takes c out of every sentence and leaves every count
\* and every other cell of every sentence as it was.
C4_MarkSafeFrame ==
    [][\A c \in Cells : MarkSafeCalled(c) =>
          /\ Len(knowledge') = Len(knowledge)
          /\ \A i \in 1 .. Len(knowledge) :
                /\ knowledge'[i].cells = knowledge[i].cells \ {c}
                /\ knowledge'[i].count = knowledge[i].count]_vars

\* Inside the loop of line 297, the sentence just iterated had count 0 and has
\* lost all its cells, and an earlier sentence with a hazard lost cells of
\* the call's surrounding cells while keeping its count.
C4_Witness ==
    /\ pc = "safes1"
    /\ pending = {}
    /\ k = Len(knowledge) + 1
    /\ Len(knowledge) >= 2
    /\ surrounding_cells # {}
    /\ knowledge[Len(knowledge)] = Sentence({}, 0)
    /\ knowledge[1].count > 0
    /\ knowledge[1].cells \cap safes = {}
    /\ knowledge[1].cells # {}

\* C5: once add_knowledge(cell, 0) has returned, every neighbour of cell is
\* known safe.
C5_ZeroCountNeighboursSafe ==
    (Returned /\ count = 0) => Neighbours(cell) \subseteq safes

\* add_knowledge(cell, 0) has returned, some neighbours were not known safe
\* when it began, and a hazard was known.
C5_Witness ==
    /\ Returned
    /\ count = 0
    /\ surrounding_cells # {}
    /\ mines # {}
    /\ Neighbours(cell) \subseteq safes

\* C6: once add_knowledge(cell, count) has returned, if count > 0 equals the
\* number of neighbours that were not known safe when the call began, all of
\* those neighbours are known hazards.
C6_FullCountNeighboursMines ==
    (Returned /\ count > 0 /\ count = Cardinality(surrounding_cells))
        => surrounding_cells \subseteq mines

C6_Witness ==
    /\ Returned
    /\ count > 0
    /\ count = Cardinality(surrounding_cells)
    /\ surrounding_cells = Neighbours(cell) \ (safes \ {cell})
    /\ surrounding_cells \subseteq mines

\* C7, as claimed: once add_knowledge has returned, no two stored sentences
\* have equal cell sets and equal counts.
C7_NoDuplicates ==
    pc = "idle" =>
        \A i, j \in 1 .. Len(knowledge) :
            i # j => ~SentenceEq(knowledge[i], knowledge[j])

\* C8: under truthful observations every stored sentence has
\* 0 <= count <= |cells|, in every state, those inside add_knowledge included.
C8_CountInRange == \A i \in 1 .. Len(knowledge) : SizeOK(knowledge[i])

\* Inside the loop of line 293: mark_mine has added a known hazard to the
\* sentence of this observation, which did not hold it, and raised its count.
C8_Witness ==
    /\ pc = "mines1"
    /\ pending = {}
    /\ k > 1
    /\ mines # {}
    /\ mines \cap surrounding_cells = {}
    /\ knowledge[Len(knowledge)] =
          Sentence(surrounding_cells \cup mines, count + Cardinality(mines))

\* C9, as claimed: line 290 appends a sentence only when the set of surrounding
\* cells is not empty.
C9_NoSentenceForEmpty ==
    [][(pc = "append" /\ surrounding_cells = {}) => knowledge' = knowledge]_vars

\* C9, amended: line 290 appends the sentence (surrounding_cells, count) in
\* every call, also when the set of surrounding cells is empty.
C9_AlwaysAppends ==
    [][pc = "append" =>
          /\ Len(knowledge') = Len(knowledge) + 1
          /\ SubSeq(knowledge', 1, Len(knowledge)) = knowledge
          /\ knowledge'[Len(knowledge')] = Sentence(surrounding_cells, count)]_vars

\* Right after line 290 appended a sentence with no cells.
C9_Witness ==
    /\ pc = "mines1"
    /\ k = 1
    /\ pending = {}
    /\ surrounding_cells = {}
    /\ Len(knowledge) >= 2
    /\ knowledge[Len(knowledge)] = Sentence({}, count)

\* C10, as claimed: once add_knowledge has returned, no stored sentence has
\* an empty cell set.
C10_NoEmptySentence ==
    pc = "idle" => \A i \in 1 .. Len(knowledge) : knowledge[i].cells # {}

\* C11 (zero-count closure), as claimed: once add_knowledge has returned, every
\* cell that a sentence of count 0 held in any state of the call is known safe.
C11_ZeroCountClosure == Returned => zero_seen \subseteq safes

\* C12 (full-count closure), as claimed: once add_knowledge has returned, the
\* cells of every sentence whose count is the size of its non-empty cell set
\* are all known hazards.
C12_FullCountClosure ==
    Returned =>
        \A i \in 1 .. Len(knowledge) :
            (knowledge[i].count = Cardinality(knowledge[i].cells)
                /\ knowledge[i].cells # {}) => knowledge[i].cells \subseteq mines

\* C13 (fixpoint), as claimed: once add_knowledge has returned, for every two
\* stored sentences A, B at different places of the list with A.cells a
\* non-empty subset of B.cells, the sentence (B.cells \ A.cells, B.count -
\* A.count) has no cells or is equal to a stored sentence.
C13_SubsetFixpoint ==
    Returned =>
        \A a, b \in 1 .. Len(knowledge) :
            (a # b /\ knowledge[a].cells # {}
                   /\ knowledge[a].cells \subseteq knowledge[b].cells) =>
                LET derived == Sentence(knowledge[b].cells \ knowledge[a].cells,
                                        knowledge[b].count - knowledge[a].count)
                IN  derived.cells = {} \/ InKnowledge(knowledge, derived)

\* C14: make_safe_move returns a cell of safes that is not in moves_made when
\* there is one, and None exactly when safes \ moves_made is empty.
C14_SafeMoveResult ==
    (pc = "idle" /\ called = "make_safe_move") =>
        IF safes \ moves_made # {}
        THEN move \in safes \ moves_made
        ELSE move = None

\* make_safe_move has returned a cell that was deduced safe and never probed,
\* while other safe cells were already probed.
C14_Witness ==
    /\ pc = "idle"
    /\ called = "make_safe_move"
    /\ move \in safes \ moves_made
    /\ Cardinality(moves_made) >= 2
    /\ mines # {}

\* C15: a call of make_safe_move leaves moves_made, safes, mines and the list
\* of sentences as they were.
C15_SafeMovePure ==
    [][(pc = "idle" /\ called' = "make_safe_move") =>
          UNCHANGED <<moves_made, safes, mines, knowledge>>]_vars

\* make_safe_move has returned a cell, with sentences stored and safe cells
\* left to return.
C15_Witness ==
    /\ pc = "idle"
    /\ called = "make_safe_move"
    /\ move # None
    /\ move \in safes
    /\ Len(knowledge) >= 2
    /\ Cardinality(safes \ moves_made) >= 2

\* C16: make_random_move returns an in-bounds cell that is neither in moves_made
\* nor in mines when there is one, and None exactly when every in-bounds cell
\* is in moves_made or in mines.
C16_RandomMoveResult ==
    (pc = "idle" /\ called = "make_random_move") =>
        IF Cells \ (moves_made \cup mines) # {}
        THEN move \in Cells \ (moves_made \cup mines)
        ELSE move = None

\* make_random_move has returned None on a board whose cells are all probed
\* or known hazards, a hazard among them.
C16_Witness ==
    /\ pc = "idle"
    /\ called = "make_random_move"
    /\ move = None
    /\ mines # {}
    /\ Cells = moves_made \cup mines

\* C17 (termination): every add_knowledge call returns.
C17_Terminates == (pc # "idle") ~> (pc = "idle")

\* A call in whose subset loops the list grew under the iterators (more
\* sentences stored than observations made) has returned.
C17_Witness ==
    /\ Returned
    /\ Len(knowledge) > Cardinality(moves_made)

\* C18 (probed cell recorded): when add_knowledge(cell, count) has returned,
\* cell is in moves_made and in safes; between calls moves_made is a subset
\* of safes.
C18_ProbedCellSafe ==
    /\ Returned => (cell \in moves_made /\ cell \in safes)
    /\ pc = "idle" => moves_made \subseteq safes

\* The third call has returned, with cells known safe that were never probed.
C18_Witness ==
    /\ Returned
    /\ Cardinality(moves_made) = 3
    /\ cell \in moves_made
    /\ safes \ moves_made # {}

\* C19 (safe cells leave the sentences): when add_knowledge has returned, no
\* sentence of the knowledge base mentions a cell of safes.
C19_NoSafeCellInSentence ==
    Returned => \A i \in 1 .. Len(knowledge) : knowledge[i].cells \cap safes = {}

\* A call has returned whose probed cell had a known-safe neighbour, with
\* cells still mentioned by a sentence.
C19_Witness ==
    /\ Returned
    /\ Neighbours(cell) \cap (safes \ moves_made) # {}
    /\ \E i \in 1 .. Len(knowledge) : Cardinality(knowledge[i].cells) >= 2

\* C20 (nearby_mines): for every cell of the board, nearby_mines is the number
\* of hazards among the in-bounds cells sharing an edge or a corner with it,
\* the cell itself left out, and lies in 0 .. 8.
C20_NearbyMines ==
    \A c \in Cells :
        /\ nearby_mines(c) = Cardinality(Neighbours(c) \cap board)
        /\ nearby_mines(c) \in 0 .. 8

\* add_knowledge was given nearby_mines of a corner cell next to the hazard,
\* and the hazard cell itself has no hazard neighbour.
C20_Witness ==
    /\ Returned
    /\ count = nearby_mines(cell)
    /\ count = 1
    /\ cell[1] \in {0, height - 1}
    /\ cell[2] \in {0, width - 1}
    /\ \E h \in board : nearby_mines(h) = 0

\* This step is the append of line 319.
SubsetAppends == pc = "subset" /\ Len(knowledge') = Len(knowledge) + 1

\* The sentence s is B minus A for two sentences at different places of kb,
\* the cells of A among those of B.
DerivedFrom(kb, s) ==
    \E a, b \in 1 .. Len(kb) :
        /\ a # b
        /\ kb[a].cells \subseteq kb[b].cells
        /\ SentenceEq(s, Sentence(kb[b].cells \ kb[a].cells, kb[b].count - kb[a].count))

\* C21 (derived sentences): every sentence the subset pass appends is B minus
\* A for two distinct stored sentences with A's cells among B's, has cells,
\* and was equal to no stored sentence when it was appended.
C21_DerivedSentence ==
    [][SubsetAppends =>
        LET new_knowledge == knowledge'[Len(knowledge')] IN
            /\ DerivedFrom(knowledge, new_knowledge)
            /\ new_knowledge.cells # {}
            /\ ~InKnowledge(knowledge, new_knowledge)]_vars

\* The subset pass has just appended a derived sentence, in a knowledge base
\* that also holds a sentence without cells.
C21_Witness ==
    /\ pc = "subset"
    /\ ii > 1
    /\ Len(knowledge) > Cardinality(moves_made)
    /\ \E i \in 1 .. Len(knowledge) - 1 : knowledge[i].cells = {}
    /\ LET last == knowledge[Len(knowledge)] IN
        /\ last.cells # {}
        /\ DerivedFrom(SubSeq(knowledge, 1, Len(knowledge) - 1), last)

\* C22 (size of the knowledge base): the number of stored sentences never
\* exceeds height x width.
C22_KnowledgeBounded == Len(knowledge) <= height * width

\* This step is the self.knowledge.remove(sentence2) of line 314.
SubsetRemoves == pc = "subset" /\ Len(knowledge') < Len(knowledge)

\* C23 (duplicate collapse keeps a copy): whenever the subset pass removes a
\* sentence, a sentence with the same cells and count is stored right after.
C23_RemoveKeepsCopy ==
    [][SubsetRemoves =>
        \A i \in 1 .. Len(knowledge) :
            InKnowledge(knowledge', knowledge[i])]_vars

\* The remove took the object sentence1 itself out of the list under the
\* iterators, and an equal sentence is stored.
C23_Witness ==
    /\ pc = "subset"
    /\ sentence1 # NoSentence
    /\ s1pos = 0
    /\ ii > 1
    /\ InKnowledge(knowledge, sentence1)

\* The sentence says the truth about the board.
TrueSentence(s) == Cardinality(s.cells \cap board) = s.count

\* C24 (stored sentences are true): in every state, the steps inside
\* add_knowledge included, the number of hazards among the cells of each
\* stored sentence is its count.
C24_SentencesTrue == \A i \in 1 .. Len(knowledge) : TrueSentence(knowledge[i])

\* Inside a call, after mark_mine has run on the sentences: a hazard is known,
\* a sentence holds it, and another sentence has count 0 and cells.
C24_Witness ==
    /\ pc # "idle"
    /\ mines # {}
    /\ \E i, j \in 1 .. Len(knowledge) :
        /\ knowledge[i].cells \cap mines # {}
        /\ knowledge[j].count = 0
        /\ knowledge[j].cells # {}

\* Every cell that is not a hazard has been probed, and the last call returned.
EndOfPlay == pc = "idle" /\ moves_made = Cells \ board

\* C25 (completeness at the end of play): once every cell that is not a hazard
\* has been probed with its true count, in any order, every hazard with a
\* neighbour that is not a hazard is in mines.
C25_CompleteAtEnd ==
    EndOfPlay => \A h \in board : (Neighbours(h) \ board # {}) => h \in mines

\* The game on the 3 x 3 board with the single hazard (0,0) is over after
\* eight probes, and (0,0) is a known hazard.
C25_Witness ==
    /\ EndOfPlay
    /\ height = 3
    /\ width = 3
    /\ board = {<<0, 0>>}
    /\ Cardinality(moves_made) = 8
    /\ <<0, 0>> \in mines

====
